---- MODULE Spec2Model ----
(***************************************************************************)
(* Model of pulp_python/app/models.py: PythonImporter._fetch_remote,       *)
(* _find_delta, _parse_package, _build_additions and sync.                 *)
(*                                                                         *)
(* A Python dict is a TLA+ function whose DOMAIN is the dict's key set.    *)
(* A JSON value that may be null is a tagged value [t, v]: None, Str(s)    *)
(* or List(q).  A reference to a dict held by the list `remote` is the     *)
(* position of that dict in `remote`.                                      *)
(***************************************************************************)
EXTENDS Integers, Sequences, FiniteSets, TLC

VARIABLES
    feed,           \* what the index serves for each project (fetch result)
    project_names,  \* PythonImporter.project_names
    content,        \* filenames of the PythonPackageContent of the repository
    pc,             \* position of the running call
    inventory,      \* local `inventory` of sync / argument of _find_delta
    idx,            \* position of the loop of _fetch_remote in metadata_urls
    remote,         \* the list `remote`: the record dicts, by position
    mirror,         \* argument `mirror` of _find_delta
    delta,          \* the Delta returned by _find_delta (lists of references)
    declared,       \* length given to SizedIterable
    applied,        \* ChangeSet.apply_and_drain was invoked
    gen,            \* position of the generator _build_additions in additions
    emitted,        \* the PendingContent yielded so far
    project,        \* argument `project` of _parse_package
    version,        \* argument `version` of _parse_package
    distribution,   \* argument `distribution` of _parse_package
    package_attrs   \* value returned by _parse_package

vars == <<feed, project_names, content, pc, inventory, idx, remote, mirror,
          delta, declared, applied, gen, emitted, project, version,
          distribution, package_attrs>>

syncVars == <<feed, project_names, content, inventory, idx, remote, mirror,
              delta, declared, applied, gen, emitted>>

parseVars == <<project, version, distribution, package_attrs>>

----------------------------------------------------------------------------
(* Bounds of the model *)

MaxRemote == 3
MaxProjects == 2

----------------------------------------------------------------------------
(* Python / JSON values *)

None == [t |-> "None", v |-> <<>>]
Str(s) == [t |-> "str", v |-> <<s>>]
List(q) == [t |-> "list", v |-> q]

EmptyDict == [k \in {} |-> None]

\* dict.get(key): None when the key is absent
Get(d, key) == IF key \in DOMAIN d THEN d[key] ELSE None

\* dict.get(key, default): the default only when the key is absent
GetDefault(d, key, default) == IF key \in DOMAIN d THEN d[key] ELSE default

\* dict.pop(key) as a statement: the dict without the key
Pop(d, key) == [k \in DOMAIN d \ {key} |-> d[k]]

----------------------------------------------------------------------------
(* _parse_package *)

OptionalFields ==
    {"summary", "description", "keywords", "home_page", "download_url",
     "author", "author_email", "maintainer", "maintainer_email", "license",
     "requires_python", "project_url", "platform", "supported_platform"}

ListFields ==
    {"requires_dist", "provides_dist", "obsoletes_dist", "requires_external"}

RecordKeys ==
    {"filename", "packagetype", "name", "version", "metadata_version",
     "url", "digest"} \cup OptionalFields \cup ListFields

\* the subscriptions of _parse_package that raise KeyError
ParsePackageRaises(proj, ver, dist) ==
    \/ "filename" \notin DOMAIN dist
    \/ "packagetype" \notin DOMAIN dist
    \/ "name" \notin DOMAIN proj
    \/ "url" \notin DOMAIN dist
    \/ "digests" \notin DOMAIN dist

\* the dict package_attrs returned by _parse_package when nothing raises
ParsePackage(proj, ver, dist) ==
    [k \in RecordKeys |->
        CASE k = "filename" -> dist["filename"]
          [] k = "packagetype" -> dist["packagetype"]
          [] k = "name" -> proj["name"]
          [] k = "version" -> ver
          [] k = "metadata_version" -> "3.0"
          [] k \in OptionalFields -> Get(proj, k)
          [] k \in ListFields -> GetDefault(proj, k, List(<<>>))
          [] k = "url" -> dist["url"]
          [] k = "digest" -> Get(dist["digests"], "sha256")]

----------------------------------------------------------------------------
(* Inputs of _parse_package: the `info` object and the distribution         *)
(* descriptors of an index response                                         *)

\* what upstream may carry for a nullable key: no key, null, or a value
Shapes == {"absent", "null", "value"}

InfoKeys(hasName, hasSummary, shape) ==
    (IF hasName THEN {"name"} ELSE {})
    \cup (IF hasSummary THEN {"summary"} ELSE {})
    \cup {k \in ListFields : shape[k] # "absent"}

MkInfo(hasName, hasSummary, shape) ==
    [k \in InfoKeys(hasName, hasSummary, shape) |->
        CASE k = "name" -> "proj"
          [] k = "summary" -> Str("a summary")
          [] OTHER -> IF shape[k] = "null" THEN None
                      ELSE List(<<"dep>=1.0">>)]

DistKeys == {"filename", "packagetype", "url", "digests"}

MkDigests(hasSha) ==
    IF hasSha THEN [k \in {"sha256"} |-> Str("abc123")] ELSE EmptyDict

MkDist(fname, url, missing, hasSha) ==
    [k \in DistKeys \ missing |->
        CASE k = "filename" -> fname
          [] k = "packagetype" -> "sdist"
          [] k = "url" -> url
          [] k = "digests" -> MkDigests(hasSha)]

NoLists == [k \in ListFields |-> "absent"]

Infos ==
    {MkInfo(n, s, sh) : n \in BOOLEAN, s \in BOOLEAN, sh \in [ListFields -> Shapes]}

Filenames == {"a-1.0.tar.gz", "b-2.0.tar.gz", "old-0.1.tar.gz"}
Urls == {"https://u1", "https://u2"}
Versions == {"1.0", "2.0"}

Dists ==
    {MkDist("a-1.0.tar.gz", "https://u1", m, h) :
        m \in {{}, {"filename"}, {"packagetype"}, {"url"}, {"digests"}},
        h \in BOOLEAN}

----------------------------------------------------------------------------
(* _parse_package called on its own *)

InitParse ==
    /\ pc = "parse_call"
    /\ project \in Infos
    /\ version \in Versions
    /\ distribution \in Dists
    /\ package_attrs = EmptyDict
    /\ feed = <<>> /\ project_names = <<>> /\ content = {}
    /\ inventory = {} /\ idx = 1 /\ remote = <<>> /\ mirror = TRUE
    /\ delta = [additions |-> <<>>, removals |-> <<>>]
    /\ declared = 0 /\ applied = FALSE /\ gen = 1 /\ emitted = <<>>

ParsePackageCall ==
    /\ pc = "parse_call"
    /\ IF ParsePackageRaises(project, version, distribution)
       THEN /\ pc' = "parse_raised"
            /\ UNCHANGED package_attrs
       ELSE /\ pc' = "parse_returned"
            /\ package_attrs' = ParsePackage(project, version, distribution)
    /\ UNCHANGED <<project, version, distribution>>
    /\ UNCHANGED syncVars

NextParse == ParsePackageCall

SpecParse == InitParse /\ [][NextParse]_vars

----------------------------------------------------------------------------
(* _find_delta *)

\* set([content['filename'] for content in remote])
RemoteKeys(rem) == {rem[i]["filename"] : i \in 1..Len(rem)}

\* [content for content in remote[1..n] if content['filename'] in keys]:
\* the references to the selected dicts, in the order of remote
RECURSIVE ListComp(_, _, _)
ListComp(rem, keys, n) ==
    IF n = 0 THEN <<>>
    ELSE LET rest == ListComp(rem, keys, n - 1)
         IN  IF rem[n]["filename"] \in keys THEN Append(rest, n) ELSE rest

\* (variant: the inventory is not subtracted from the remote keys)
FindDeltaNoSubtract(inv, rem, mir) ==
    LET remote_keys == RemoteKeys(rem)
        removals_set == inv \ remote_keys
    IN  [additions |-> ListComp(rem, remote_keys, Len(rem)),
         removals |-> IF mir THEN ListComp(rem, removals_set, Len(rem))
                      ELSE <<>>]

\* (variant: the remote keys are intersected with the inventory)
FindDeltaIntersect(inv, rem, mir) ==
    LET remote_keys == RemoteKeys(rem)
        removals_set == inv \ remote_keys
    IN  [additions |-> ListComp(rem, remote_keys \cap inv, Len(rem)),
         removals |-> IF mir THEN ListComp(rem, removals_set, Len(rem))
                      ELSE <<>>]

\* (variant: without mirror the removals are the additions)
FindDeltaElseAdditions(inv, rem, mir) ==
    LET remote_keys == RemoteKeys(rem)
        additions == ListComp(rem, remote_keys \ inv, Len(rem))
    IN  [additions |-> additions,
         removals |-> IF mir THEN ListComp(rem, inv \ remote_keys, Len(rem))
                      ELSE additions]

\* (variant: only the first dict of each filename is kept)
FindDeltaFirstWins(inv, rem, mir) ==
    LET remote_keys == RemoteKeys(rem)
        all == ListComp(rem, remote_keys \ inv, Len(rem))
        first(k) == \A l \in 1..(k - 1) :
                       rem[all[l]]["filename"] # rem[all[k]]["filename"]
        keep == {k \in 1..Len(all) : first(k)}
        RECURSIVE pick(_)
        pick(n) == IF n = 0 THEN <<>>
                   ELSE IF n \in keep THEN Append(pick(n - 1), all[n])
                   ELSE pick(n - 1)
    IN  [additions |-> pick(Len(all)),
         removals |-> IF mir THEN ListComp(rem, inv \ remote_keys, Len(rem))
                      ELSE <<>>]

\* _find_delta(inventory, remote, mirror)
FindDelta(inv, rem, mir) ==
    LET remote_keys == RemoteKeys(rem)
        additions_set == remote_keys \ inv
        additions == ListComp(rem, additions_set, Len(rem))
        removals_set == inv \ remote_keys
        removals == IF mir THEN ListComp(rem, removals_set, Len(rem))
                    ELSE <<>>
    IN  [additions |-> additions, removals |-> removals]

\* the filenames of the dicts a list of references points to
FilenamesOf(rem, refs) == {rem[refs[k]]["filename"] : k \in 1..Len(refs)}

----------------------------------------------------------------------------
(* _find_delta called on its own, on any inventory, remote list and mirror *)

PlainInfo == MkInfo(TRUE, FALSE, NoLists)

\* well-formed records as _parse_package builds them
DeltaRecords ==
    {ParsePackage(PlainInfo, "1.0", MkDist(f, u, {}, TRUE)) :
        f \in {"a-1.0.tar.gz", "b-2.0.tar.gz"}, u \in Urls}

SeqsUpTo(S, n) == UNION {[1..m -> S] : m \in 0..n}

InitDelta ==
    /\ pc = "delta_call"
    /\ inventory \in SUBSET Filenames
    /\ remote \in SeqsUpTo(DeltaRecords, MaxRemote)
    /\ mirror \in BOOLEAN
    /\ delta = [additions |-> <<>>, removals |-> <<>>]
    /\ feed = <<>> /\ project_names = <<>> /\ content = {}
    /\ idx = 1 /\ declared = 0 /\ applied = FALSE /\ gen = 1 /\ emitted = <<>>
    /\ project = EmptyDict /\ version = "1.0" /\ distribution = EmptyDict
    /\ package_attrs = EmptyDict

FindDeltaCall ==
    /\ pc = "delta_call"
    /\ delta' = FindDelta(inventory, remote, mirror)
    /\ pc' = "delta_returned"
    /\ UNCHANGED <<feed, project_names, content, inventory, idx, remote,
                   mirror, declared, applied, gen, emitted>>
    /\ UNCHANGED parseVars

NextDelta == FindDeltaCall

SpecDelta == InitDelta /\ [][NextDelta]_vars

----------------------------------------------------------------------------
(* _fetch_remote *)

\* What download.fetch() and json.load give for one metadata_url:
\*   "fetch_error" - download.fetch() raises
\*   "bad_json"    - json.load raises
\*   "ok"          - the parsed metadata, with its info and its releases
\*                   (the (version, packages) items in the order of the dict)
FetchError == [kind |-> "fetch_error", info |-> EmptyDict, releases |-> <<>>]
BadJson == [kind |-> "bad_json", info |-> EmptyDict, releases |-> <<>>]
Metadata(info, releases) == [kind |-> "ok", info |-> info, releases |-> releases]

Release(ver, packages) == [version |-> ver, packages |-> packages]

\* the (version, package) pairs of the first n releases, in the order the
\* two nested loops visit them
RECURSIVE Pairs(_, _)
Pairs(releases, n) ==
    IF n = 0 THEN <<>>
    ELSE Pairs(releases, n - 1) \o
         [j \in 1..Len(releases[n].packages) |->
             <<releases[n].version, releases[n].packages[j]>>]

\* some (version, package) pair of the response makes _parse_package raise
Malformed(resp) ==
    \E j \in 1..Len(Pairs(resp.releases, Len(resp.releases))) :
        LET pr == Pairs(resp.releases, Len(resp.releases))[j]
        IN  ParsePackageRaises(resp.info, pr[1], pr[2])

\* the dicts _parse_package returns for the pairs of the response
ParsedPairs(resp) ==
    LET prs == Pairs(resp.releases, Len(resp.releases))
    IN  [j \in 1..Len(prs) |-> ParsePackage(resp.info, prs[j][1], prs[j][2])]

\* (variant: a failed download or an unreadable payload is skipped)
FetchOutcomeSkipProject(resp) ==
    IF resp.kind # "ok" THEN [raised |-> FALSE, records |-> <<>>]
    ELSE IF Malformed(resp) THEN [raised |-> TRUE, records |-> <<>>]
    ELSE [raised |-> FALSE, records |-> ParsedPairs(resp)]

\* (variant: a package that makes _parse_package raise is skipped)
FetchOutcomeSkipMalformed(resp) ==
    IF resp.kind # "ok" THEN [raised |-> TRUE, records |-> <<>>]
    ELSE LET prs == Pairs(resp.releases, Len(resp.releases))
             good == SelectSeq(prs,
                        LAMBDA pr : ~ParsePackageRaises(resp.info, pr[1], pr[2]))
         IN  [raised |-> FALSE,
              records |-> [j \in 1..Len(good) |->
                              ParsePackage(resp.info, good[j][1], good[j][2])]]

\* the body of the loop over metadata_urls for one response: whether it
\* raises (download.fetch, json.load or _parse_package) and, when it does
\* not, the dicts it appends to remote
FetchOutcome(resp) ==
    IF resp.kind # "ok" \/ Malformed(resp)
    THEN [raised |-> TRUE, records |-> <<>>]
    ELSE [raised |-> FALSE, records |-> ParsedPairs(resp)]

----------------------------------------------------------------------------
(* _build_additions *)

\* entry['url'] or entry['digest'] raises KeyError
BuildRaises(entry) == "url" \notin DOMAIN entry \/ "digest" \notin DOMAIN entry

\* (variant: only url is popped)
PoppedUrlOnly(entry) == Pop(entry, "url")

\* the entry after entry.pop('url') and entry.pop('digest')
Popped(entry) == Pop(Pop(entry, "url"), "digest")

\* (variant: the relative path is the project name)
PendingUnitNamePath(entry) ==
    [package |-> Popped(entry),
     artifacts |-> {[sha256 |-> entry["digest"],
                     url |-> entry["url"],
                     relative_path |-> Popped(entry)["name"]]}]

\* the PendingContent yielded for an entry
PendingUnit(entry) ==
    [package |-> Popped(entry),
     artifacts |-> {[sha256 |-> entry["digest"],
                     url |-> entry["url"],
                     relative_path |-> Popped(entry)["filename"]]}]

----------------------------------------------------------------------------
(* sync *)

Projects == {"p1", "p2"}

A == "a-1.0.tar.gz"
B == "b-2.0.tar.gz"
U1 == "https://u1"
U2 == "https://u2"

\* the index responses the model draws from
Responses ==
    { FetchError,
      BadJson,
      Metadata(PlainInfo, <<>>),
      Metadata(PlainInfo, <<Release("1.0", <<MkDist(A, U1, {}, TRUE)>>)>>),
      Metadata(PlainInfo, <<Release("1.0", <<MkDist(A, U1, {}, TRUE),
                                             MkDist(A, U2, {}, FALSE)>>)>>),
      Metadata(PlainInfo, <<Release("1.0", <<MkDist(A, U1, {}, TRUE)>>),
                            Release("2.0", <<MkDist(B, U2, {}, FALSE)>>)>>),
      Metadata(PlainInfo, <<Release("2.0", <<MkDist(B, U2, {}, TRUE)>>)>>),
      Metadata(PlainInfo, <<Release("1.0", <<MkDist(A, U1, {}, TRUE),
                                             MkDist(B, U2, {"filename"}, TRUE)>>)>>),
      Metadata(PlainInfo, <<Release("1.0", <<MkDist(A, U1, {"packagetype"}, TRUE)>>),
                            Release("2.0", <<MkDist(B, U2, {}, TRUE)>>)>>),
      Metadata(MkInfo(FALSE, FALSE, NoLists),
               <<Release("2.0", <<MkDist(B, U2, {}, TRUE)>>)>>) }

Init ==
    /\ pc = "idle"
    /\ feed \in [Projects -> Responses]
    /\ project_names \in SeqsUpTo(Projects, MaxProjects)
    /\ content \in SUBSET Filenames
    /\ inventory = {} /\ idx = 1 /\ remote = <<>> /\ mirror = TRUE
    /\ delta = [additions |-> <<>>, removals |-> <<>>]
    /\ declared = 0 /\ applied = FALSE /\ gen = 1 /\ emitted = <<>>
    /\ project = EmptyDict /\ version = "1.0" /\ distribution = EmptyDict
    /\ package_attrs = EmptyDict

\* inventory = self._fetch_inventory(); _fetch_remote starts with remote = []
FetchInventory ==
    /\ pc = "idle"
    /\ inventory' = content
    /\ remote' = <<>>
    /\ idx' = 1
    /\ pc' = "fetch_remote"
    /\ UNCHANGED <<feed, project_names, content, mirror, delta, declared,
                   applied, gen, emitted>>
    /\ UNCHANGED parseVars

\* one iteration of the loop of _fetch_remote over metadata_urls; what it
\* raises leaves _fetch_remote and sync
FetchRemoteStep ==
    /\ pc = "fetch_remote"
    /\ idx <= Len(project_names)
    /\ LET resp == feed[project_names[idx]]
       IN  IF FetchOutcome(resp).raised
           THEN /\ pc' = "failed"
                /\ UNCHANGED <<remote, idx>>
           ELSE /\ remote' = remote \o FetchOutcome(resp).records
                /\ idx' = idx + 1
                /\ pc' = pc
    /\ UNCHANGED <<feed, project_names, content, inventory, mirror, delta,
                   declared, applied, gen, emitted>>
    /\ UNCHANGED parseVars

\* _fetch_remote returns; delta = self._find_delta(inventory, remote) with
\* the default mirror=True; SizedIterable(..., len(delta.additions))
FindDeltaStep ==
    /\ pc = "fetch_remote"
    /\ idx > Len(project_names)
    /\ delta' = FindDelta(inventory, remote, mirror)
    /\ declared' = Len(delta'.additions)
    /\ gen' = 1
    /\ pc' = "changeset"
    /\ UNCHANGED <<feed, project_names, content, inventory, idx, remote,
                   mirror, applied, emitted>>
    /\ UNCHANGED parseVars

\* changeset.apply_and_drain() is invoked
ApplyAndDrain ==
    /\ pc = "changeset"
    /\ applied' = TRUE
    /\ pc' = "drain"
    /\ UNCHANGED <<feed, project_names, content, inventory, idx, remote,
                   mirror, delta, declared, gen, emitted>>
    /\ UNCHANGED parseVars

\* the ChangeSet takes the next PendingContent from _build_additions
BuildAdditionsNext ==
    /\ pc = "drain"
    /\ gen <= Len(delta.additions)
    /\ LET ref == delta.additions[gen]
           entry == remote[ref]
       IN  IF BuildRaises(entry)
           THEN /\ pc' = "failed"
                /\ UNCHANGED <<remote, emitted, gen>>
           ELSE /\ emitted' = Append(emitted, PendingUnit(entry))
                /\ remote' = [remote EXCEPT ![ref] = Popped(entry)]
                /\ gen' = gen + 1
                /\ pc' = pc
    /\ UNCHANGED <<feed, project_names, content, inventory, idx, mirror,
                   delta, declared, applied>>
    /\ UNCHANGED parseVars

\* _build_additions is exhausted; apply_and_drain and sync return
DrainDone ==
    /\ pc = "drain"
    /\ gen > Len(delta.additions)
    /\ pc' = "done"
    /\ UNCHANGED syncVars
    /\ UNCHANGED parseVars

Next ==
    \/ FetchInventory
    \/ FetchRemoteStep
    \/ FindDeltaStep
    \/ ApplyAndDrain
    \/ BuildAdditionsNext
    \/ DrainDone

Spec == Init /\ [][Next]_vars

----------------------------------------------------------------------------
(* Properties of _find_delta, under SpecDelta *)

Returned == pc = "delta_returned"

LocalOnly == inventory \ RemoteKeys(remote)

\* C1: with mirror=true the removals hold exactly one record per local
\* filename that is no filename of remote, each carrying that filename
C1_RemovalsAreLocalOnly ==
    (Returned /\ mirror) =>
        /\ Len(delta.removals) = Cardinality(LocalOnly)
        /\ FilenamesOf(remote, delta.removals) = LocalOnly

\* C2: for either mirror, the additions are exactly the records of remote
\* whose filename is not in the inventory, in the order of remote
C2_AdditionsAreRemoteOnly ==
    Returned =>
        LET add == delta.additions
        IN  /\ \A k \in 1..Len(add) :
                  /\ add[k] \in 1..Len(remote)
                  /\ remote[add[k]]["filename"] \notin inventory
            /\ \A k \in 1..Len(add) : \A l \in 1..Len(add) :
                  k < l => add[k] < add[l]
            /\ \A i \in 1..Len(remote) :
                  remote[i]["filename"] \notin inventory
                      => \E k \in 1..Len(add) : add[k] = i

\* a record in the inventory sits between two records that are added
C2_Witness ==
    /\ Returned
    /\ Len(remote) = 3
    /\ delta.additions = <<1, 3>>
    /\ remote[2]["filename"] \in inventory

\* C6: the filenames of additions and removals are disjoint; additions are
\* filenames of remote outside the inventory; removals are filenames of the
\* inventory that are no filename of remote
C6_DeltaInvariant ==
    Returned =>
        LET addF == FilenamesOf(remote, delta.additions)
            remF == FilenamesOf(remote, delta.removals)
        IN  /\ addF \cap remF = {}
            /\ addF \subseteq (RemoteKeys(remote) \ inventory)
            /\ remF \subseteq (inventory \ RemoteKeys(remote))

\* mirror, with filenames on both sides only and on both sides at once
C6_Witness ==
    /\ Returned
    /\ mirror
    /\ delta.additions # <<>>
    /\ LocalOnly # {}
    /\ inventory \cap RemoteKeys(remote) # {}

\* C8: with mirror=false the removals are empty and the additions are those
\* of mirror=true
C8_AdditiveOnly ==
    (Returned /\ ~mirror) =>
        /\ delta.removals = <<>>
        /\ delta.additions = FindDelta(inventory, remote, TRUE).additions

\* mirror=false with something to add and a local filename remote lacks
C8_Witness ==
    /\ Returned
    /\ ~mirror
    /\ delta.additions # <<>>
    /\ LocalOnly # {}

----------------------------------------------------------------------------
(* Property of _parse_package, under SpecParse *)

\* C7: each of the four dependency-list fields of the record is a sequence,
\* never null, and is empty whenever upstream supplies no list for it
C7_ListFieldsNeverNull ==
    pc = "parse_returned" =>
        \A k \in ListFields :
            /\ package_attrs[k].t = "list"
            /\ Get(project, k).t # "list" => package_attrs[k] = List(<<>>)

----------------------------------------------------------------------------
(* Properties of sync, under Spec *)

\* the dicts as _parse_package built them for the first n project names
RECURSIVE Constructed(_)
Constructed(n) ==
    IF n = 0 THEN <<>>
    ELSE Constructed(n - 1) \o ParsedPairs(feed[project_names[n]])

AfterDelta == pc \in {"changeset", "drain", "done"}
Draining == pc \in {"drain", "done"}

HasFetchFailure ==
    \E i \in 1..Len(project_names) : feed[project_names[i]].kind # "ok"

HasMalformedRecord ==
    \E i \in 1..Len(project_names) :
        /\ feed[project_names[i]].kind = "ok"
        /\ Malformed(feed[project_names[i]])

Occurrences(f) == {i \in 1..Len(remote) : remote[i]["filename"] = f}
Added(f) ==
    {k \in 1..Len(delta.additions) : remote[delta.additions[k]]["filename"] = f}
Emitted(f) ==
    {k \in 1..Len(emitted) : emitted[k].package["filename"] = f}

\* C3 (as stated): the additions hold at most one record per filename and
\* at most one PendingUnit is emitted per filename
C3_OnePerFilename ==
    AfterDelta =>
        \A f \in Filenames :
            /\ Cardinality(Added(f)) <= 1
            /\ Cardinality(Emitted(f)) <= 1

\* C3 (amended): the additions hold every record of remote whose filename
\* is not in the inventory, one per occurrence of the filename, and once
\* the stream is consumed one PendingUnit was emitted per occurrence
C3_EveryOccurrenceKept ==
    AfterDelta =>
        \A f \in Filenames :
            /\ Cardinality(Added(f)) =
                   (IF f \in inventory THEN 0 ELSE Cardinality(Occurrences(f)))
            /\ pc = "done" => Cardinality(Emitted(f)) = Cardinality(Added(f))

\* two units of one filename, from two distributions, were emitted
C3_Witness ==
    /\ pc = "done"
    /\ \E k \in 1..Len(emitted) : \E l \in 1..Len(emitted) :
          /\ k < l
          /\ emitted[k].package["filename"] = emitted[l].package["filename"]
          /\ emitted[k].artifacts # emitted[l].artifacts

\* C4: when the fetch or the parse of the index of any project name fails,
\* apply_and_drain is never invoked, no unit is handed over and sync does
\* not get past _fetch_remote
C4_FetchFailureCommitsNothing ==
    HasFetchFailure =>
        /\ ~applied
        /\ emitted = <<>>
        /\ pc \notin {"changeset", "drain", "done"}

\* the second project fails after the first one gave records
C4_Witness ==
    /\ pc = "failed"
    /\ idx = 2
    /\ remote # <<>>
    /\ feed[project_names[2]].kind \in {"fetch_error", "bad_json"}

\* C5 (as stated): a record lacking a required field is skipped and the
\* sync is not aborted: without a failed fetch, sync does not fail
C5_MalformedRecordSkipped ==
    ~HasFetchFailure => pc # "failed"

\* C5 (amended): a record lacking a required field makes _parse_package
\* raise, which ends _fetch_remote and sync: apply_and_drain is never
\* invoked and no unit is handed over
C5_MalformedRecordAborts ==
    HasMalformedRecord =>
        /\ ~applied
        /\ emitted = <<>>
        /\ pc \notin {"changeset", "drain", "done"}

\* every index was fetched and parsed, a record of the second project
\* lacks a field, the first project gave records
C5_Witness ==
    /\ pc = "failed"
    /\ ~HasFetchFailure
    /\ idx = 2
    /\ remote # <<>>
    /\ Malformed(feed[project_names[2]])

\* C9 (as stated): once _build_additions runs, every record of remote
\* still has all the fields it was built with
C9_RecordsNeverMutated ==
    Draining =>
        \A j \in 1..Len(remote) :
            /\ DOMAIN remote[j] = RecordKeys
            /\ \A k \in RecordKeys :
                  remote[j][k] = Constructed(Len(project_names))[j][k]

\* C9 (amended): _build_additions removes url and digest, and nothing
\* else, from each record it has taken; the other fields and the other
\* records stay as built, and _find_delta on the same inventory and remote
\* returns the same Delta
C9_OnlyUrlAndDigestPopped ==
    Draining =>
        /\ \A j \in 1..Len(remote) :
              LET taken == \E k \in 1..(gen - 1) : delta.additions[k] = j
              IN  /\ DOMAIN remote[j] =
                         (IF taken THEN RecordKeys \ {"url", "digest"}
                          ELSE RecordKeys)
                  /\ \A k \in DOMAIN remote[j] :
                        remote[j][k] = Constructed(Len(project_names))[j][k]
        /\ FindDelta(inventory, remote, mirror) = delta

\* the stream was consumed; some records were taken and some were not
C9_Witness ==
    /\ pc = "done"
    /\ delta.additions # <<>>
    /\ Len(delta.additions) < Len(remote)

\* C10: one PendingUnit per record of the additions, in their order, each
\* with exactly one artifact holding the url and digest of the record and
\* its filename as relative path; the count given to SizedIterable is the
\* number of units of the consumed stream
C10_OneUnitPerAddition ==
    Draining =>
        /\ declared = Len(delta.additions)
        /\ Len(emitted) = gen - 1
        /\ Len(emitted) <= declared
        /\ pc = "done" => Len(emitted) = declared
        /\ \A k \in 1..Len(emitted) :
              LET rec == Constructed(Len(project_names))[delta.additions[k]]
              IN  /\ emitted[k].package["filename"] = rec["filename"]
                  /\ emitted[k].artifacts =
                         {[sha256 |-> rec["digest"],
                           url |-> rec["url"],
                           relative_path |-> rec["filename"]]}
                  /\ Cardinality(emitted[k].artifacts) = 1

\* several units were emitted, one of them without a sha256 digest
C10_Witness ==
    /\ pc = "done"
    /\ Len(emitted) >= 2
    /\ \E k \in 1..Len(emitted) :
          \E a \in emitted[k].artifacts : a.sha256 = None

====
